---------------------------- MODULE Spec2Model ----------------------------
(***************************************************************************)
(* A model of the rosee parser-combinator engine (Parsimmon-like stateful  *)
(* combinators) and of two of the MFM syntax rules built on the context    *)
(* API (link, small).                                                      *)
(*                                                                         *)
(* Input text is a sequence of one-character strings; a position is a      *)
(* zero-based offset into it, as in the source.                            *)
(***************************************************************************)
EXTENDS Integers, Sequences, FiniteSets, TLC

\* ------------------------------------------------------------------ bounds
MaxLen == 3          \* longest input text of the combinator specifications
MaxMin == 2          \* largest "min" given to many / sep
MaxAlts == 3         \* most alternatives given to alt
NumRules == 3        \* rules of a table given to createLanguage
MaxDepth == 3        \* deepest stack of nested handler calls of a rule table
MaxCalls == 3        \* top-level invocations of rules of one rule table
MaxBuilt == 3        \* the runs of a constructor are counted up to this number
MaxLinkPieces == 5   \* pieces an input of the link rule is assembled from
MaxSmallPieces == 4  \* pieces an input of the small rule is assembled from

Alphabet == {"a", "\r", "\n"}

RECURSIVE SeqsUpTo(_, _)
SeqsUpTo(S, n) ==
    IF n = 0 THEN {<<>>}
    ELSE LET shorter == SeqsUpTo(S, n - 1)
         IN  shorter \cup {Append(s, c) : s \in shorter, c \in S}

Inputs == SeqsUpTo(Alphabet, MaxLen)

Min2(a, b) == IF a < b THEN a ELSE b

\* input.slice(from, to) for 0 <= from, to
slice(input, from, to) ==
    LET t == Min2(to, Len(input))
    IN  IF from >= t THEN <<>> ELSE SubSeq(input, from + 1, t)

\* ------------------------------------------------------------------ values
\* Values produced by matchers: null, a string, or an array of values.
Val(t, s, items) == [t |-> t, s |-> s, items |-> items]
Null == Val("null", <<>>, <<>>)
Text(s) == Val("text", s, <<>>)
List(items) == Val("list", <<>>, items)

\* ------------------------------------------------------------ result model
success(index, value) == [success |-> TRUE, value |-> value, index |-> index]

failure == [success |-> FALSE]

\* A call that never returns (a loop that cannot exit) has no Result.
NoReturn == [returns |-> FALSE]

Returns(r) == "success" \in DOMAIN r

\* ------------------------------------------------------ primitive matchers
strHandler(value, input, index) ==
    IF (Len(input) - index) < Len(value) THEN failure
    ELSE IF slice(input, index, index + Len(value)) # value THEN failure
    ELSE success(index + Len(value), Text(value))

RECURSIVE RunOf(_, _)
\* length of the longest prefix of text made only of character c
RunOf(c, text) ==
    IF text = <<>> \/ Head(text) # c THEN 0 ELSE 1 + RunOf(c, Tail(text))

\* re.exec(text) for the anchored pattern ^(?:source): the length of
\* result[0], or -1 when exec returns null.
RegExpExec(pattern, text) ==
    CASE pattern = "a+" -> IF RunOf("a", text) >= 1 THEN RunOf("a", text) ELSE -1
      [] pattern = "a*" -> RunOf("a", text)
      [] pattern = "\\r\\n|[\\r\\n]" ->
            IF Len(text) >= 2 /\ text[1] = "\r" /\ text[2] = "\n" THEN 2
            ELSE IF Len(text) >= 1 /\ text[1] \in {"\r", "\n"} THEN 1
            ELSE -1

Patterns == {"a+", "a*", "\\r\\n|[\\r\\n]"}

\* regexp reporting the length of the match as the new position
regexpHandler_NoOffset(pattern, input, index) ==
    LET text == slice(input, index, Len(input))
        n == RegExpExec(pattern, text)
    IN  IF n = -1 THEN failure
        ELSE success(n, Text(slice(text, 0, n)))

regexpHandler(pattern, input, index) ==
    LET text == slice(input, index, Len(input))
        n == RegExpExec(pattern, text)
    IN  IF n = -1 THEN failure
        ELSE success(index + n, Text(slice(text, 0, n)))

charHandler(input, index) ==
    IF (Len(input) - index) < 1 THEN failure
    ELSE success(index + 1, Text(<<input[index + 1]>>))

succeededHandler(value, input, index) == success(index, value)

crHandler(input, index) == strHandler(<<"\r">>, input, index)

lfHandler(input, index) == strHandler(<<"\n">>, input, index)

crlfHandler(input, index) == strHandler(<<"\r", "\n">>, input, index)

lineBeginHandler(input, index) ==
    IF index = 0 THEN success(index, Null)
    ELSE IF crHandler(input, index - 1).success THEN success(index, Null)
    ELSE IF lfHandler(input, index - 1).success THEN success(index, Null)
    ELSE failure

lineEndHandler(input, index) ==
    IF index = Len(input) THEN success(index, Null)
    ELSE IF crHandler(input, index).success THEN success(index, Null)
    ELSE IF lfHandler(input, index).success THEN success(index, Null)
    ELSE failure

\* ------------------------------------------------------------- combinators
\* A Parser is represented by the expression that built it; its handler is
\* Run, defined below.
str(value) == [k |-> "str", value |-> value]

regexp(pattern) == [k |-> "regexp", pattern |-> pattern]

seq(parsers) == [k |-> "seq", parsers |-> parsers]

alt(parsers) == [k |-> "alt", parsers |-> parsers]

succeeded(value) == [k |-> "succeeded", constant |-> value]

notMatch(parser) == [k |-> "notMatch", parser |-> parser]

lazy(fn) == [k |-> "lazy", fn |-> fn]

map(this, fn) == [k |-> "map", this |-> this, fn |-> fn]

text(this) == [k |-> "text", this |-> this]

many(this, min) == [k |-> "many", this |-> this, min |-> min]

\* the functions given to map by the engine itself, and one by a grammar
Key(key) == [f |-> "key", key |-> key]              \* v => v[key]
Spread == [f |-> "spread", key |-> 0]               \* result => [result[0], ...result[1]]
Wrap == [f |-> "wrap", key |-> 0]                   \* v => [v]

Apply(fn, v) ==
    CASE fn.f = "key" -> v.items[fn.key + 1]
      [] fn.f = "spread" -> List(<<v.items[1]>> \o v.items[2].items)
      [] fn.f = "wrap" -> List(<<v>>)

select(this, key) == map(this, Key(key))

option(this) == alt(<<this, succeeded(Null)>>)

\* what sep does when it throws
Thrown == [k |-> "Error"]

\* sep projecting the separator out of each (separator, this) pair
sep_SelectSeparator(this, separator, min) ==
    IF min < 1 THEN Thrown
    ELSE map(seq(<<this, many(select(seq(<<separator, this>>), 0), min - 1)>>),
             Spread)

sep(this, separator, min) ==
    IF min < 1 THEN Thrown
    ELSE map(seq(<<this, many(select(seq(<<separator, this>>), 1), min - 1)>>),
             Spread)

cr == str(<<"\r">>)
lf == str(<<"\n">>)
crlf == str(<<"\r", "\n">>)
newline == alt(<<crlf, cr, lf>>)
char == [k |-> "char"]
lineBegin == [k |-> "lineBegin"]
lineEnd == [k |-> "lineEnd"]

RECURSIVE Run(_, _, _)
RECURSIVE SeqLoop(_, _, _, _, _)
RECURSIVE AltLoop(_, _, _, _)
RECURSIVE ManyLoop(_, _, _, _, _)

\* the for loop of seq, from iteration i (one-based) on
SeqLoop(parsers, i, input, latestIndex, accum) ==
    IF i > Len(parsers) THEN success(latestIndex, List(accum))
    ELSE LET result == Run(parsers[i], input, latestIndex)
         IN  IF ~Returns(result) THEN NoReturn
             ELSE IF ~result.success THEN result
             ELSE SeqLoop(parsers, i + 1, input, result.index,
                          Append(accum, result.value))

\* the for loop of alt, from iteration i (one-based) on
AltLoop(parsers, i, input, index) ==
    IF i > Len(parsers) THEN failure
    ELSE LET result == Run(parsers[i], input, index)
         IN  IF ~Returns(result) THEN NoReturn
             ELSE IF result.success THEN result
             ELSE AltLoop(parsers, i + 1, input, index)

\* The while loop of many.  It yields the latestIndex and accum the loop
\* exits with.  A handler is a function of (input, index), so an iteration
\* that leads back to a position the loop has been at repeats forever: the
\* loop never exits and the call does not return.
ManyLoop(this, input, latestIndex, accum, seen) ==
    IF latestIndex < Len(input)
    THEN LET result == Run(this, input, latestIndex)
         IN  IF ~Returns(result) THEN NoReturn
             ELSE IF ~result.success
                  THEN [latestIndex |-> latestIndex, accum |-> accum]
             ELSE IF result.index \in seen \cup {latestIndex} THEN NoReturn
             ELSE ManyLoop(this, input, result.index,
                           Append(accum, result.value),
                           seen \cup {latestIndex})
    ELSE [latestIndex |-> latestIndex, accum |-> accum]

manyHandler(this, min, input, index) ==
    LET exit == ManyLoop(this, input, index, <<>>, {})
    IN  IF exit = NoReturn THEN NoReturn
        ELSE IF Len(exit.accum) < min THEN failure
        ELSE success(exit.latestIndex, List(exit.accum))

mapHandler(this, fn, input, index) ==
    LET result == Run(this, input, index)
    IN  IF ~Returns(result) THEN NoReturn
        ELSE IF ~result.success THEN result
        ELSE success(result.index, Apply(fn, result.value))

textHandler(this, input, index) ==
    LET result == Run(this, input, index)
    IN  IF ~Returns(result) THEN NoReturn
        ELSE IF ~result.success THEN result
        ELSE success(result.index, Text(slice(input, index, result.index)))

notMatchHandler(parser, input, index) ==
    LET result == Run(parser, input, index)
    IN  IF ~Returns(result) THEN NoReturn
        ELSE IF ~result.success THEN success(index, Null)
        ELSE failure

\* parser.handler(input, index, state)
Run(parser, input, index) ==
    CASE parser.k = "str" -> strHandler(parser.value, input, index)
      [] parser.k = "regexp" -> regexpHandler(parser.pattern, input, index)
      [] parser.k = "char" -> charHandler(input, index)
      [] parser.k = "succeeded" -> succeededHandler(parser.constant, input, index)
      [] parser.k = "lineBegin" -> lineBeginHandler(input, index)
      [] parser.k = "lineEnd" -> lineEndHandler(input, index)
      [] parser.k = "seq" -> SeqLoop(parser.parsers, 1, input, index, <<>>)
      [] parser.k = "alt" -> AltLoop(parser.parsers, 1, input, index)
      [] parser.k = "many" -> manyHandler(parser.this, parser.min, input, index)
      [] parser.k = "map" -> mapHandler(parser.this, parser.fn, input, index)
      [] parser.k = "text" -> textHandler(parser.this, input, index)
      [] parser.k = "notMatch" -> notMatchHandler(parser.parser, input, index)
      [] parser.k = "lazy" -> Run(parser.fn, input, index)

\* ------------------------------------------------- the matchers exercised
Primitives ==
    {str(<<"a">>), str(<<>>), cr, lf, crlf, char, lineBegin, lineEnd,
     succeeded(Null)} \cup {regexp(p) : p \in Patterns}

Mins == 0 .. MaxMin

Unary(S) ==
    {many(p, m) : p \in S, m \in Mins}
      \cup {map(p, Wrap) : p \in S} \cup {text(p) : p \in S}
      \cup {option(p) : p \in S} \cup {notMatch(p) : p \in S}
      \cup {lazy(p) : p \in S}

Binary(S) ==
    {seq(<<p, q>>) : p \in S, q \in S} \cup {alt(<<p, q>>) : p \in S, q \in S}

\* matchers built by one combinator, and some built by two
Level1 == Unary(Primitives) \cup Binary(Primitives) \cup {newline}

Nested ==
    Unary({newline, seq(<<str(<<"a">>), newline>>), many(str(<<"a">>), 0),
           many(lineEnd, 0), notMatch(newline), option(str(<<"a">>)),
           alt(<<str(<<"a">>), lineEnd>>)})
      \cup {select(seq(<<p, q>>), key) : p \in {char, lineBegin},
                                         q \in {char, newline}, key \in {0, 1}}

Combinators == Level1 \cup Nested

\* operands of sep
SepThis == {str(<<"a">>), char, regexp("a+"), regexp("a*"), lineEnd}

SepSeparator == {newline, lf, str(<<"a">>), str(<<>>), lineBegin}

\* ------------------------------------------------------------------- state
VARIABLES
    input,          \* the text being parsed
    index,          \* the position a handler was called at
    parser,         \* the Parser whose handler is called
    args,           \* the arguments the Parser was built from (sep, many)
    result,         \* the Result the handler returned
    pc,             \* where the call is
    latestIndex,    \* local of many
    accum,          \* local of many
    altI,           \* loop variable i of alt
    calls,          \* handler calls made by the running loop, in order
    syntaxes,       \* createLanguage: what each rule's constructor returns
    handler,        \* createLanguage: the handler field of each lazy cell
    name,           \* createLanguage: the name field of each lazy cell
    built,          \* how many times each rule's constructor has run
    invoked,        \* the rules whose cell has been invoked
    stack,          \* the handler calls in progress, innermost last
    ncalls,         \* calls made from outside the table
    ctx,            \* the parse context a syntax rule runs on
    rule,           \* the syntax rule that runs
    rpc,            \* where the rule is
    locals,         \* the rule's local variables
    entry,          \* the context as the rule was entered
    ret             \* what the rule returned

combVars == <<input, index, parser, args, result, pc, latestIndex, accum,
              altI, calls>>

langVars == <<syntaxes, handler, name, built, invoked, stack, ncalls>>

ruleVars == <<ctx, rule, rpc, locals, entry, ret>>

vars == <<combVars, langVars, ruleVars>>

NoArgs == [this |-> Null, separator |-> Null, min |-> 0]

\* locals of the stepped loops while no such loop runs
LoopIdle == latestIndex = 0 /\ accum = <<>> /\ altI = 0 /\ calls = <<>>

\* the state of the combinator engine while another part of the program runs
CombIdle ==
    /\ input = <<>> /\ index = 0 /\ parser = Null /\ args = NoArgs
    /\ result = NoReturn /\ pc = "idle"
    /\ LoopIdle

\* the state of a rule table while another part of the program runs
LangIdle ==
    /\ syntaxes = <<>> /\ handler = <<>> /\ name = <<>> /\ built = <<>>
    /\ invoked = {} /\ stack = <<>> /\ ncalls = 0

NoContext == [input |-> <<>>, pos |-> 0, inLink |-> FALSE]

NoLocals == [silent |-> FALSE, nodes |-> 0, loopEnd |-> 0]

NoResult == [ok |-> FALSE, result |-> "none"]

\* the state of the syntax rules while another part of the program runs
RulesIdle ==
    /\ ctx = NoContext /\ rule = "none" /\ rpc = "idle" /\ locals = NoLocals
    /\ entry = NoContext /\ ret = NoResult

\* ===================================================== handler invocations
\* A handler built from the combinators is called once on some text at some
\* position inside it.
InitComb ==
    /\ input \in Inputs
    /\ index \in 0 .. Len(input)
    /\ parser = Null /\ args = NoArgs
    /\ result = NoReturn /\ pc = "ready"
    /\ LoopIdle
    /\ LangIdle
    /\ RulesIdle

\* parser.handler(input, index, state) runs to its end, or never ends
Call(p) ==
    /\ pc = "ready"
    /\ parser' = p
    /\ result' = Run(p, input, index)
    /\ pc' = IF Returns(result') THEN "returned" ELSE "hung"
    /\ UNCHANGED <<input, index, latestIndex, accum, altI, calls>>
    /\ UNCHANGED <<langVars, ruleVars>>

InvokePrimitive == \E p \in Primitives : Call(p) /\ UNCHANGED args

InvokeCombinator == \E p \in Combinators : Call(p) /\ UNCHANGED args

\* this.sep(separator, min) is built, then its handler is called
InvokeSep ==
    \E this \in SepThis, separator \in SepSeparator, min \in Mins :
        /\ pc = "ready"
        /\ args' = [this |-> this, separator |-> separator, min |-> min]
        /\ IF sep(this, separator, min) = Thrown
           THEN /\ pc' = "thrown"
                /\ UNCHANGED <<input, index, parser, result, latestIndex,
                               accum, altI, calls>>
                /\ UNCHANGED <<langVars, ruleVars>>
           ELSE Call(sep(this, separator, min))

NextComb == InvokePrimitive \/ InvokeCombinator \/ InvokeSep

SpecComb == InitComb /\ [][NextComb]_vars

\* ------------------------------------------------------------ C6
\* C6: every Matched outcome, of a primitive or of a combinator, carries a
\* position that is at least the position the handler was called at and at
\* most the length of the input.
MatchedNeverRewinds ==
    (pc = "returned" /\ result.success)
        => (index <= result.index /\ result.index <= Len(input))

\* a sequence called inside the text matched and consumed input
MatchedNeverRewindsWitness ==
    /\ pc = "returned" /\ parser.k = "seq" /\ result.success
    /\ 0 < index /\ index < result.index

\* ------------------------------------------------------------ C8
RECURSIVE SepChain(_, _, _, _, _, _)
\* values are the values of successive matches of this, the first at position
\* from, each later one right after a match of separator that starts where
\* the previous match of this ended; the last match of this ends at to
SepChain(this, separator, txt, from, values, to) ==
    LET first == Run(this, txt, from)
    IN  /\ values # <<>>
        /\ first.success
        /\ first.value = values[1]
        /\ IF Len(values) = 1 THEN first.index = to
           ELSE LET between == Run(separator, txt, first.index)
                IN  /\ between.success
                    /\ SepChain(this, separator, txt, between.index,
                                Tail(values), to)

IsSepCall == args.this # Null

\* C8: sep with min < 1 throws and builds nothing; with min >= 1 a Matched
\* outcome lists at least min values of this, chained through separators
\* whose values are left out, and ends right after the last match of this;
\* a lone element followed by no separator gives a one-element result that
\* ends right after the element.
SepMatchesSeparatedList ==
    IsSepCall =>
        /\ (pc = "thrown") <=> (args.min < 1)
        /\ (pc = "returned" /\ result.success) =>
              /\ result.value.t = "list"
              /\ Len(result.value.items) >= args.min
              /\ SepChain(args.this, args.separator, input, index,
                          result.value.items, result.index)
        /\ (pc \in {"returned", "hung"} /\ args.min = 1) =>
              LET first == Run(args.this, input, index)
              IN  (first.success
                     /\ ~Run(args.separator, input, first.index).success)
                    => result = success(first.index, List(<<first.value>>))

\* two elements were matched, and a separator that no element follows was
\* left unconsumed
SepMatchesSeparatedListWitness ==
    /\ IsSepCall /\ pc = "returned" /\ result.success
    /\ Len(result.value.items) = 2
    /\ Run(args.separator, input, result.index).success
    /\ ~Run(args.this, input,
            Run(args.separator, input, result.index).index).success

\* ------------------------------------------------------------ C9
\* the character at zero-based position i of txt, "" outside txt
CharAt(txt, i) == IF 0 <= i /\ i < Len(txt) THEN txt[i + 1] ELSE ""

\* position i is right after a line terminator \r\n, \r or \n, the txt
\* being cut into terminators with \r\n tried first
AfterTerminator(txt, i) ==
    \/ CharAt(txt, i - 1) = "\n"
    \/ CharAt(txt, i - 1) = "\r" /\ CharAt(txt, i) # "\n"

\* position i is right before a line terminator
BeforeTerminator(txt, i) ==
    \/ CharAt(txt, i) = "\r"
    \/ CharAt(txt, i) = "\n" /\ CharAt(txt, i - 1) # "\r"

\* C9: lineBegin matches only at position 0 or right after a complete line
\* terminator, lineEnd only at the end of the input or right before a line
\* terminator (a position inside one \r\n is no boundary), and both return
\* the position they were called at.
LineBoundariesAreTrue ==
    /\ (pc = "returned" /\ parser = lineBegin /\ result.success)
          => /\ result.index = index
             /\ (index = 0 \/ AfterTerminator(input, index))
    /\ (pc = "returned" /\ parser = lineEnd /\ result.success)
          => /\ result.index = index
             /\ (index = Len(input) \/ BeforeTerminator(input, index))

\* ============================================== the while loop of many
\* this.many(min).handler(input, index, state), one loop iteration at a time.
\* The sub-matchers are handlers that return.
ManyThis ==
    Primitives \cup {newline, notMatch(newline), option(str(<<"a">>)),
                     seq(<<char, lineEnd>>), text(seq(<<str(<<"a">>), newline>>))}

IsManyCall == parser # Null /\ parser.k = "many"

\* the handler is entered: let latestIndex = index; const accum = []
ManyEnter ==
    \E this \in ManyThis, min \in Mins :
        /\ pc = "ready"
        /\ parser' = many(this, min)
        /\ latestIndex' = index
        /\ accum' = <<>>
        /\ calls' = <<>>
        /\ pc' = "many_loop"
        /\ UNCHANGED <<input, index, args, result, altI>>
        /\ UNCHANGED <<langVars, ruleVars>>

\* accum.push(value); once accum is longer than the input, an iteration has
\* matched without consuming and the model stops counting the elements
Push(list, value, txt) ==
    IF Len(list) > Len(txt) THEN list ELSE Append(list, value)

\* while (latestIndex < input.length)
ManyTest ==
    /\ pc = "many_loop"
    /\ pc' = IF latestIndex < Len(input) THEN "many_body" ELSE "many_exit"
    /\ UNCHANGED <<input, index, parser, args, result, latestIndex, accum,
                   altI, calls>>
    /\ UNCHANGED <<langVars, ruleVars>>

\* the loop body
ManyBody ==
    /\ pc = "many_body"
    /\ LET r == Run(parser.this, input, latestIndex)
       IN  IF ~r.success
           THEN /\ pc' = "many_exit"
                /\ UNCHANGED <<latestIndex, accum>>
           ELSE /\ latestIndex' = r.index
                /\ accum' = Push(accum, r.value, input)
                /\ pc' = "many_loop"
    /\ UNCHANGED <<input, index, parser, args, result, altI, calls>>
    /\ UNCHANGED <<langVars, ruleVars>>

\* many returning success whatever min is
ManyReturn_NoMin ==
    /\ pc = "many_exit"
    /\ result' = success(latestIndex, List(accum))
    /\ pc' = "returned"
    /\ UNCHANGED <<input, index, parser, args, latestIndex, accum, altI, calls>>
    /\ UNCHANGED <<langVars, ruleVars>>

\* after the loop
ManyReturn ==
    /\ pc = "many_exit"
    /\ result' = IF Len(accum) < parser.min THEN failure
                 ELSE success(latestIndex, List(accum))
    /\ pc' = "returned"
    /\ UNCHANGED <<input, index, parser, args, latestIndex, accum, altI, calls>>
    /\ UNCHANGED <<langVars, ruleVars>>

NextMany == ManyEnter \/ ManyTest \/ ManyBody \/ ManyReturn

SpecMany == InitComb /\ [][NextMany]_vars

\* the handler keeps running while it has a step to take
LiveSpecMany == InitComb /\ [][NextMany]_vars /\ WF_vars(NextMany)

\* ------------------------------------------------------------ C4
\* C4: many always terminates: whatever the sub-matcher, min, input and
\* start position, the handler returns after finitely many iterations.
ManyAlwaysReturns == <>(pc = "returned")

\* ------------------------------------------------------------ C5
RECURSIVE ManyChain(_, _, _, _, _)
\* values are the values of successive matches of this, the first at position
\* from, each next one where the previous ended, the last ending at to
ManyChain(this, txt, from, values, to) ==
    IF values = <<>> THEN from = to
    ELSE LET r == Run(this, txt, from)
         IN  /\ r.success
             /\ r.value = values[1]
             /\ ManyChain(this, txt, r.index, Tail(values), to)

\* what many returns, given where and with what the accumulation stopped
ManyOutcome ==
    /\ ManyChain(parser.this, input, index, accum, latestIndex)
    /\ result = IF Len(accum) >= parser.min
                THEN success(latestIndex, List(accum))
                ELSE failure
    /\ (parser.min = 0
          /\ \A i \in 0 .. Len(input) : ~Run(parser.this, input, i).success)
         => result = success(index, List(<<>>))

\* C5 as stated: many stops only when this fails, so whenever it returns
\* this does not match where the accumulation stopped.
ManyStopsOnlyWhenThisFails ==
    (IsManyCall /\ pc = "returned")
        => /\ ~Run(parser.this, input, latestIndex).success
           /\ ManyOutcome

\* C5 (amended): many accumulates chained matches of this and stops when
\* this fails or when the position has reached the end of the input, where
\* this is not tried; it returns Matched with the accumulated values and the
\* position reached if the count is >= min, NotMatched otherwise; with
\* min = 0 and a this that never matches, an empty list at the start position.
ManyStopsAtFailureOrEnd ==
    (IsManyCall /\ pc = "returned")
        => /\ \/ ~Run(parser.this, input, latestIndex).success
              \/ latestIndex >= Len(input)
           /\ ManyOutcome

\* the accumulation stopped at the end of the input although this matches
\* there
ManyStopsAtFailureOrEndWitness ==
    /\ IsManyCall /\ pc = "returned"
    /\ Len(accum) >= 1 /\ result.success
    /\ latestIndex = Len(input)
    /\ Run(parser.this, input, latestIndex).success

\* ================================================== the for loop of alt
AltOperands == {str(<<"a">>), crlf, cr, char, lineEnd}

AltLists == SeqsUpTo(AltOperands, MaxAlts)

IsAltCall == parser # Null /\ parser.k = "alt"

\* the handler is entered: let i = 0
AltEnter ==
    \E parsers \in AltLists :
        /\ pc = "ready"
        /\ parser' = alt(parsers)
        /\ altI' = 0
        /\ calls' = <<>>
        /\ pc' = "alt_loop"
        /\ UNCHANGED <<input, index, args, result, latestIndex, accum>>
        /\ UNCHANGED <<langVars, ruleVars>>

\* alt going on after a success and returning the last one
AltIterate_LastWins ==
    /\ pc = "alt_loop"
    /\ altI < Len(parser.parsers)
    /\ LET r == Run(parser.parsers[altI + 1], input, index)
       IN  /\ calls' = Append(calls, [i |-> altI, index |-> index])
           /\ result' = IF r.success THEN r ELSE result
           /\ altI' = altI + 1
           /\ pc' = IF altI' = Len(parser.parsers) /\ Returns(result')
                    THEN "returned" ELSE "alt_loop"
    /\ UNCHANGED <<input, index, parser, args, latestIndex, accum>>
    /\ UNCHANGED <<langVars, ruleVars>>

\* one pass through the loop body: parsers[i].handler(input, index, state)
AltIterate ==
    /\ pc = "alt_loop"
    /\ altI < Len(parser.parsers)
    /\ LET r == Run(parser.parsers[altI + 1], input, index)
       IN  /\ calls' = Append(calls, [i |-> altI, index |-> index])
           /\ IF r.success
              THEN /\ result' = r
                   /\ pc' = "returned"
                   /\ UNCHANGED altI
              ELSE /\ altI' = altI + 1
                   /\ UNCHANGED <<result, pc>>
    /\ UNCHANGED <<input, index, parser, args, latestIndex, accum>>
    /\ UNCHANGED <<langVars, ruleVars>>

\* the loop is over: return failure()
AltFail ==
    /\ pc = "alt_loop"
    /\ ~(altI < Len(parser.parsers))
    /\ result' = failure
    /\ pc' = "returned"
    /\ UNCHANGED <<input, index, parser, args, latestIndex, accum, altI, calls>>
    /\ UNCHANGED <<langVars, ruleVars>>

NextAlt == AltEnter \/ AltIterate \/ AltFail

SpecAlt == InitComb /\ [][NextAlt]_vars

\* ------------------------------------------------------------ C7
\* C7: alt calls its alternatives in listed order, each at the position alt
\* was called at; its outcome is the outcome of the first alternative that
\* succeeds, none is called after that one, and it fails exactly when every
\* alternative fails at that position.
AltFirstSuccessWins ==
    (IsAltCall /\ pc = "returned") =>
        LET ps == parser.parsers
            n == Len(calls)
        IN  /\ n <= Len(ps)
            /\ \A j \in 1 .. n : calls[j] = [i |-> j - 1, index |-> index]
            /\ \A j \in 1 .. n - 1 : ~Run(ps[j], input, index).success
            /\ result.success =>
                  /\ n >= 1
                  /\ Run(ps[n], input, index).success
                  /\ result = Run(ps[n], input, index)
            /\ ~result.success => n = Len(ps)
            /\ (result = failure)
                  <=> (\A j \in 1 .. Len(ps) : ~Run(ps[j], input, index).success)

\* the second of three alternatives won although the third matches too,
\* with another outcome
AltFirstSuccessWinsWitness ==
    /\ IsAltCall /\ pc = "returned"
    /\ Len(parser.parsers) = 3 /\ Len(calls) = 2
    /\ result.success
    /\ Run(parser.parsers[3], input, index).success
    /\ Run(parser.parsers[3], input, index) # result

\* ===================================================== createLanguage
Rules == 1 .. NumRules

\* What syntaxes[key](rules) returns.  A constructor returns a Parser: a
\* new one that refers to no rule ("own"), a new one whose handler calls
\* rules[rule].handler when it runs, as r.x.map(f) or seq(p, r.x) do
\* ("uses"), or the cell rules[rule] itself ("cell").
Syntaxes ==
    {[kind |-> "own", rule |-> 0]}
      \cup {[kind |-> k, rule |-> j] : k \in {"uses", "cell"}, j \in Rules}

\* Every chain of constructors that return another rule's cell ends in a
\* constructor that builds a Parser (a chain that closed on itself would be a
\* rule defined as itself); the rules are numbered along the chains.
ChainsEnd(table) ==
    \A i \in Rules : table[i].kind = "cell" => table[i].rule > i

\* handler of the lazy cell of rule i as lazy creates it: it runs fn
Unresolved(i) == [h |-> "lazy", rule |-> i]

\* handler of the Parser that syntaxes[i] returns when it builds a new one
Built(i) == [h |-> "built", rule |-> i]

Top == stack[Len(stack)]

Pop == SubSeq(stack, 1, Len(stack) - 1)

\* createLanguage(syntaxes) has returned: every rule is a lazy cell and
\* no constructor has been called
InitLang ==
    /\ CombIdle
    /\ RulesIdle
    /\ syntaxes \in {table \in [Rules -> Syntaxes] : ChainsEnd(table)}
    /\ handler = [i \in Rules |-> Unresolved(i)]
    /\ name = [i \in Rules |-> 0]
    /\ built = [i \in Rules |-> 0]
    /\ invoked = {}
    /\ stack = <<>>
    /\ ncalls = 0

\* rules[i].handler(input, index, state) is called from outside the table
Invoke ==
    \E i \in DOMAIN handler :
        /\ stack = <<>>
        /\ ncalls < MaxCalls
        /\ ncalls' = ncalls + 1
        /\ invoked' = invoked \cup {i}
        /\ stack' = <<handler[i]>>
        /\ UNCHANGED <<syntaxes, handler, name, built>>
        /\ UNCHANGED <<combVars, ruleVars>>

\* fn().handler for the fn that createLanguage gives to lazy for rule i
FnHandler(i) ==
    IF syntaxes[i].kind = "cell" THEN handler[syntaxes[i].rule] ELSE Built(i)

\* The handler lazy created for rule i runs: parser.handler = fn().handler,
\* where fn calls the constructor and names the Parser it returned; it then
\* returns what parser.handler(input, index, state) returns, so the call
\* goes on in that handler.
Resolve ==
    /\ stack # <<>>
    /\ Top.h = "lazy"
    /\ LET i == Top.rule
       IN  /\ built' = [built EXCEPT ![i] = Min2(@ + 1, MaxBuilt)]
           /\ name' = IF syntaxes[i].kind = "cell"
                      THEN [name EXCEPT ![syntaxes[i].rule] = i]
                      ELSE name
           /\ handler' = [handler EXCEPT ![i] = FnHandler(i)]
           /\ stack' = Append(Pop, handler'[i])
    /\ UNCHANGED <<syntaxes, invoked, ncalls>>
    /\ UNCHANGED <<combVars, ruleVars>>

\* The handler of a Parser built by a constructor runs and, if the Parser
\* uses a rule, calls that rule's cell: rules[rule].handler is read at the
\* time of the call.
Use ==
    /\ stack # <<>>
    /\ Top.h = "built"
    /\ syntaxes[Top.rule].kind = "uses"
    /\ Len(stack) < MaxDepth
    /\ LET j == syntaxes[Top.rule].rule
       IN  /\ invoked' = invoked \cup {j}
           /\ stack' = Append(stack, handler[j])
    /\ UNCHANGED <<syntaxes, handler, name, built, ncalls>>
    /\ UNCHANGED <<combVars, ruleVars>>

\* the handler of a Parser built by a constructor returns its Result
Return ==
    /\ stack # <<>>
    /\ Top.h = "built"
    /\ stack' = Pop
    /\ UNCHANGED <<syntaxes, handler, name, built, invoked, ncalls>>
    /\ UNCHANGED <<combVars, ruleVars>>

NextLang == Invoke \/ Resolve \/ Use \/ Return

SpecLang == InitLang /\ [][NextLang]_vars

\* ------------------------------------------------------------ C3
\* C3: no constructor runs when the table is built, a rule's constructor has
\* run once its first invocation is over, and whatever the rules are invoked
\* through, each constructor runs at most once.
ConstructorRunsOnce ==
    /\ (ncalls = 0 /\ stack = <<>>) => \A i \in Rules : built[i] = 0
    /\ stack = <<>> => \A i \in invoked : built[i] >= 1
    /\ \A i \in Rules : built[i] <= 1

\* ================================================== the context API
\* input text assembled from at most n pieces
RECURSIVE Assemble(_, _)
Assemble(pieces, n) ==
    IF n = 0 THEN {<<>>}
    ELSE LET shorter == Assemble(pieces, n - 1)
         IN  shorter \cup {s \o piece : s \in shorter, piece \in pieces}

\* the input at the cursor starts with the literal
StartsWith(txt, pos, literal) ==
    /\ pos + Len(literal) <= Len(txt)
    /\ SubSeq(txt, pos + 1, pos + Len(literal)) = literal

\* ctx.matchStr(value), ctx.matchChar(code): a test that consumes nothing
matchStr(c, literal) == StartsWith(c.input, c.pos, literal)

\* the context after ctx.str(value) / ctx.char(code) returned ok
Consumed(c, literal) == [c EXCEPT !.pos = @ + Len(literal)]

\* ctx.fail(): no value, and the cursor is back where the rule was entered
Fail(c, from) == [c EXCEPT !.pos = from.pos]

\* The outcomes of ctx.parser(p) for a rule p defined elsewhere (the inline
\* rule, the url rules): failure, or success at a position that is not
\* before the cursor.  The number is the count of characters consumed, -1
\* for failure.
Outcomes(c) == {-1} \cup (0 .. (Len(c.input) - c.pos))

\* The outcomes of the url rules: a url is not empty and is made of
\* characters other than the ones the link syntax is written with.
UrlOutcomes(c) ==
    {-1} \cup {n \in 1 .. (Len(c.input) - c.pos) :
                 \A i \in 1 .. n : c.input[c.pos + i] = "a"}

\* pushNode(matched.result, nodes); the count stops at one more than the
\* length of the input
pushNode(n, c) == IF n > Len(c.input) THEN n ELSE n + 1

\* a rule returns
Done(c, value) ==
    /\ ctx' = c
    /\ ret' = value
    /\ rpc' = "done"

Failed(c) == Done(Fail(c, entry), [ok |-> FALSE, result |-> "none"])

\* ======================================================== the link rule
LinkPieces == {<<"?">>, <<"[">>, <<"a">>, <<"]", "(">>, <<")">>}

\* linkParser is about to run on a context
InitLink ==
    /\ CombIdle /\ LangIdle
    /\ \E txt \in Assemble(LinkPieces, MaxLinkPieces) :
         \E pos \in {0, Len(txt)}, flag \in BOOLEAN :
            ctx = [input |-> txt, pos |-> pos, inLink |-> flag]
    /\ rule = "link" /\ rpc = "start" /\ locals = NoLocals
    /\ entry = ctx /\ ret = NoResult

\* "?" (option), "[", and the flag is set for the label
LinkOpen ==
    /\ rule = "link" /\ rpc = "start"
    /\ LET silent == matchStr(ctx, <<"?">>)
           c1 == IF silent THEN Consumed(ctx, <<"?">>) ELSE ctx
       IN  IF ~matchStr(c1, <<"[">>)
           THEN Failed(c1) /\ UNCHANGED locals
           ELSE /\ ctx' = [Consumed(c1, <<"[">>) EXCEPT !.inLink = TRUE]
                /\ locals' = [locals EXCEPT !.silent = silent]
                /\ rpc' = "label"
                /\ UNCHANGED ret
    /\ UNCHANGED <<rule, entry>>
    /\ UNCHANGED <<combVars, langVars>>

\* one pass through the label loop that does not leave it
LinkLabel ==
    /\ rule = "link" /\ rpc = "label"
    /\ ~matchStr(ctx, <<"]">>)
    /\ \E n \in Outcomes(ctx) :
          /\ n # -1
          /\ ctx' = [ctx EXCEPT !.pos = @ + n]
          /\ locals' = [locals EXCEPT !.nodes = pushNode(@, ctx)]
    /\ UNCHANGED <<rule, rpc, entry, ret>>
    /\ UNCHANGED <<combVars, langVars>>

\* the label loop is left, the flag is cleared; then the label must not be
\* empty and "](" must follow
LinkLabelEnd ==
    /\ rule = "link" /\ rpc = "label"
    /\ matchStr(ctx, <<"]">>) \/ -1 \in Outcomes(ctx)
    /\ LET c1 == [ctx EXCEPT !.inLink = FALSE]
       IN  IF locals.nodes < 1 THEN Failed(c1)
           ELSE IF ~matchStr(c1, <<"]", "(">>) THEN Failed(c1)
           ELSE /\ ctx' = Consumed(c1, <<"]", "(">>)
                /\ rpc' = "url"
                /\ UNCHANGED ret
    /\ locals' = [locals EXCEPT !.loopEnd = ctx.pos]
    /\ UNCHANGED <<rule, entry>>
    /\ UNCHANGED <<combVars, langVars>>

\* ctx.choice([urlAltParser, urlParser]), then ")"
LinkUrl ==
    /\ rule = "link" /\ rpc = "url"
    /\ \E n \in UrlOutcomes(ctx) :
          IF n = -1 THEN Failed(ctx)
          ELSE LET c1 == [ctx EXCEPT !.pos = @ + n]
               IN  IF ~matchStr(c1, <<")">>) THEN Failed(c1)
                   ELSE Done(Consumed(c1, <<")">>),
                             [ok |-> TRUE, result |-> "LINK"])
    /\ UNCHANGED <<rule, locals, entry>>
    /\ UNCHANGED <<combVars, langVars>>

NextLink == LinkOpen \/ LinkLabel \/ LinkLabelEnd \/ LinkUrl

SpecLink == InitLink /\ [][NextLink]_vars

\* ------------------------------------------------------------ C1
\* C1: whatever the inside-link flag is when linkParser is entered, and
\* whichever way linkParser returns, the flag has that value again when it
\* returns.
LinkRestoresFlag ==
    (rule = "link" /\ rpc = "done") => ctx.inLink = entry.inLink

\* ------------------------------------------------------------ C2
\* C2: linkParser entered while the inside-link flag is set fails fast: it
\* never returns a link node.
LinkFailsInsideLink ==
    (rule = "link" /\ rpc = "done" /\ entry.inLink) => ~ret.ok

\* ======================================================= the small rule
OpenTag == <<"<", "s", "m", "a", "l", "l", ">">>

CloseTag == <<"<", "/", "s", "m", "a", "l", "l", ">">>

SmallPieces == {OpenTag, CloseTag, <<"a">>, <<"<">>}

\* smallTagParser is about to run on a context
InitSmall ==
    /\ CombIdle /\ LangIdle
    /\ \E txt \in Assemble(SmallPieces, MaxSmallPieces) :
         \E pos \in {0, 1, Len(txt)} :
            /\ pos <= Len(txt)
            /\ ctx = [input |-> txt, pos |-> pos, inLink |-> FALSE]
    /\ rule = "small" /\ rpc = "start" /\ locals = NoLocals
    /\ entry = ctx /\ ret = NoResult

\* "<small>"
SmallOpen ==
    /\ rule = "small" /\ rpc = "start"
    /\ IF ~matchStr(ctx, OpenTag)
       THEN Failed(ctx)
       ELSE /\ ctx' = Consumed(ctx, OpenTag)
            /\ rpc' = "children"
            /\ UNCHANGED ret
    /\ UNCHANGED <<rule, locals, entry>>
    /\ UNCHANGED <<combVars, langVars>>

\* one pass through the children loop that does not leave it
SmallChild ==
    /\ rule = "small" /\ rpc = "children"
    /\ ~matchStr(ctx, CloseTag)
    /\ \E n \in Outcomes(ctx) :
          /\ n # -1
          /\ ctx' = [ctx EXCEPT !.pos = @ + n]
          /\ locals' = [locals EXCEPT !.nodes = pushNode(@, ctx)]
    /\ UNCHANGED <<rule, rpc, entry, ret>>
    /\ UNCHANGED <<combVars, langVars>>

\* small returning its node without looking for "</small>"
SmallChildrenEnd_Unclosed ==
    /\ rule = "small" /\ rpc = "children"
    /\ matchStr(ctx, CloseTag) \/ -1 \in Outcomes(ctx)
    /\ IF locals.nodes < 1 THEN Failed(ctx)
       ELSE Done(ctx, [ok |-> TRUE, result |-> "SMALL"])
    /\ locals' = [locals EXCEPT !.loopEnd = ctx.pos]
    /\ UNCHANGED <<rule, entry>>
    /\ UNCHANGED <<combVars, langVars>>

\* the children loop is left; then there must be a child and "</small>"
\* must follow
SmallChildrenEnd ==
    /\ rule = "small" /\ rpc = "children"
    /\ matchStr(ctx, CloseTag) \/ -1 \in Outcomes(ctx)
    /\ IF locals.nodes < 1 THEN Failed(ctx)
       ELSE IF ~matchStr(ctx, CloseTag) THEN Failed(ctx)
       ELSE Done(Consumed(ctx, CloseTag), [ok |-> TRUE, result |-> "SMALL"])
    /\ locals' = [locals EXCEPT !.loopEnd = ctx.pos]
    /\ UNCHANGED <<rule, entry>>
    /\ UNCHANGED <<combVars, langVars>>

NextSmall == SmallOpen \/ SmallChild \/ SmallChildrenEnd

SpecSmall == InitSmall /\ [][NextSmall]_vars

\* ------------------------------------------------------------ C10
\* the closing tag occurs somewhere in the text at or after position from
HasCloseTag(txt, from) ==
    \E i \in from .. Len(txt) : StartsWith(txt, i, CloseTag)

\* C10: whatever the inline rule does, small returns a node only if the
\* input at entry starts with "<small>", at least one child was accumulated
\* and "</small>" is at the cursor after the children; with the closing tag
\* missing, or with no child, it returns failure and no node.
SmallFailsUnlessClosed ==
    (rule = "small" /\ rpc = "done") =>
        /\ ret.ok =>
              /\ StartsWith(entry.input, entry.pos, OpenTag)
              /\ locals.nodes >= 1
              /\ StartsWith(ctx.input, locals.loopEnd, CloseTag)
              /\ ctx.pos = locals.loopEnd + Len(CloseTag)
              /\ ret.result = "SMALL"
        /\ ~ret.ok => ret.result = "none"
        /\ ~HasCloseTag(entry.input, entry.pos) => ~ret.ok
        /\ locals.nodes = 0 => ~ret.ok

\* an unterminated tag: the input starts with "<small>", children were
\* parsed, there is no closing tag, and small failed
SmallFailsUnlessClosedWitness ==
    /\ rule = "small" /\ rpc = "done"
    /\ StartsWith(entry.input, entry.pos, OpenTag)
    /\ locals.nodes >= 1
    /\ ~HasCloseTag(entry.input, entry.pos)
    /\ ~ret.ok

\* ===================================================== the whole program
\* A handler built from the combinators, a rule table or one of the syntax
\* rules is about to be used.
Init == InitComb \/ InitLang \/ InitLink \/ InitSmall

Next == NextComb \/ NextMany \/ NextAlt \/ NextLang \/ NextLink \/ NextSmall

Spec == Init /\ [][Next]_vars

=============================================================================
